---- MODULE Spec2Model ----
(***************************************************************************)
(* gojws: verification of a JWS compact serialization (src/jws.go).        *)
(*                                                                         *)
(* Strings and byte slices are sequences of byte values 0..255 (a Go       *)
(* string is a byte sequence), so that splitting on ".", base64url         *)
(* decoding and single bit flips act on the real characters.               *)
(* A big.Int is its big-endian magnitude without leading zero bytes, which *)
(* is what big.Int.SetBytes keeps of its argument.                         *)
(***************************************************************************)
EXTENDS Integers, Sequences, FiniteSets, TLC

\* ------------------------------------------------------------------ bounds

\* Inputs are built with 1 .. MaxParts dot-separated segments.
MaxParts == 4
\* Key pairs / shared secrets are numbered 1 .. NumKeyIds.
NumKeyIds == 2
\* Bit flips are applied to the first and the last MaxFlipPos characters of
\* the signature segment.
MaxFlipPos == 2

\* ------------------------------------------------------- program constants

\* rSize, sSize of ES256 and of ES512.
ES256Size == 32
ES512Size == 66

ALG_NONE  == "none"
ALG_HS256 == "HS256"
ALG_RS256 == "RS256"
ALG_ES256 == "ES256"
ALG_ES512 == "ES512"

\* ------------------------------------------------------------- characters

Dot   == 46   \* "."
EqPad == 61   \* "="

\* n zero bytes (none for n <= 0).
Zeros(n) == [i \in 1..n |-> 0]

Min(S) == CHOOSE x \in S : \A y \in S : x <= y

Tail2(q, n) == SubSeq(q, n + 1, Len(q))

\* The byte c with bit k (0 = least significant) inverted.
FlipBit(c, k) ==
    LET w == 2 ^ k
    IN  IF (c \div w) % 2 = 1 THEN c - w ELSE c + w

FlipAt(str, pos, k) == [str EXCEPT ![pos] = FlipBit(str[pos], k)]

\* ---------------------------------------------------------- strings.Split

\* strings.Index(str, "."): the position of the first "." of str, 0 when
\* there is none.
IndexDot(str) ==
    LET dots == {i \in 1..Len(str) : str[i] = Dot}
    IN  IF dots = {} THEN 0 ELSE Min(dots)

\* strings.Split(jws, "."): the substrings between the separators; a string
\* without separator (the empty string included) gives one part.
RECURSIVE Split(_)
Split(str) ==
    LET i == IndexDot(str)
    IN  IF i = 0 THEN <<str>>
        ELSE <<SubSeq(str, 1, i - 1)>> \o Split(Tail2(str, i))

\* ------------------------------------------------------------ base64url

\* The 6-bit value of a character of the URL-safe alphabet, -1 for any other.
B64Val(c) ==
    IF c >= 65 /\ c <= 90 THEN c - 65
    ELSE IF c >= 97 /\ c <= 122 THEN c - 71
    ELSE IF c >= 48 /\ c <= 57 THEN c + 4
    ELSE IF c = 45 THEN 62
    ELSE IF c = 95 THEN 63
    ELSE -1

B64Char(v) ==
    IF v < 26 THEN v + 65
    ELSE IF v < 52 THEN v + 71
    ELSE IF v < 62 THEN v - 4
    ELSE IF v = 62 THEN 45
    ELSE 95

\* Byte i of b, 0 past its end.
ByteAt(b, i) == IF i <= Len(b) THEN b[i] ELSE 0

\* base64url without padding, the encoding of a compact-serialization
\* segment: every 3 bytes give 4 characters, 1 or 2 remaining bytes give 2
\* or 3 characters.
Encode(b) ==
    [i \in 1..((Len(b) * 4 + 2) \div 3) |->
        LET g  == 3 * ((i - 1) \div 4)
            b1 == ByteAt(b, g + 1)
            b2 == ByteAt(b, g + 2)
            b3 == ByteAt(b, g + 3)
            k  == (i - 1) % 4
        IN  B64Char(IF k = 0 THEN b1 \div 4
                    ELSE IF k = 1 THEN (b1 % 4) * 16 + b2 \div 16
                    ELSE IF k = 2 THEN (b2 % 16) * 4 + b3 \div 64
                    ELSE b3 % 64)]

\* The bytes of a sequence of 6-bit values: every 4 values give 3 bytes, 2 or
\* 3 remaining values give 1 or 2 bytes; the bits left over after the last
\* whole byte are dropped.
DecodeVals(v) ==
    [j \in 1..((Len(v) * 3) \div 4) |->
        LET g == 4 * ((j - 1) \div 3)
            k == (j - 1) % 3
        IN  IF k = 0 THEN v[g + 1] * 4 + v[g + 2] \div 16
            ELSE IF k = 1 THEN (v[g + 2] % 16) * 16 + v[g + 3] \div 4
            ELSE (v[g + 3] % 4) * 64 + v[g + 4]]

\* Number of "=" characters at the end of str.
RECURSIVE PadCount(_)
PadCount(str) ==
    IF Len(str) > 0 /\ str[Len(str)] = EqPad
    THEN 1 + PadCount(SubSeq(str, 1, Len(str) - 1))
    ELSE 0

\* safeDecode: tolerant URL-safe base64 decoding. Padded and unpadded input is
\* accepted; a character outside the URL-safe alphabet and malformed padding
\* are rejected. Returns [ok, bytes].
safeDecode(str) ==
    LET pad  == PadCount(str)
        body == SubSeq(str, 1, Len(str) - pad)
        good == /\ \A i \in 1..Len(body) : B64Val(body[i]) >= 0
                /\ Len(body) % 4 # 1
                /\ pad > 0 => /\ Len(str) % 4 = 0
                              /\ pad <= 2
                              /\ Len(body) % 4 = 4 - pad
    IN  IF good
        THEN [ok |-> TRUE, bytes |-> DecodeVals([i \in 1..Len(body) |-> B64Val(body[i])])]
        ELSE [ok |-> FALSE, bytes |-> <<>>]

\* ------------------------------------------------------------ Header

\* Header: the fields of the decoded JWS header that verification and key
\* selection read. Typ and Cty carry the same JSON tag, so encoding/json
\* fills neither of them.
ZeroHeader == [Alg |-> "", Kid |-> ""]

DocNone   == <<123, 34, 97, 108, 103, 34, 58, 34, 110, 111, 110, 101, 34, 125>>
DocHS256  == <<123, 34, 97, 108, 103, 34, 58, 34, 72, 83, 50, 53, 54, 34, 125>>
DocRS256  == <<123, 34, 97, 108, 103, 34, 58, 34, 82, 83, 50, 53, 54, 34, 125>>
DocES256  == <<123, 34, 97, 108, 103, 34, 58, 34, 69, 83, 50, 53, 54, 34, 125>>
DocES512  == <<123, 34, 97, 108, 103, 34, 58, 34, 69, 83, 53, 49, 50, 34, 125>>
DocXYZ999 == <<123, 34, 97, 108, 103, 34, 58, 34, 88, 89, 90, 57, 57, 57, 34, 125>>
DocEmpty  == <<123, 125>>
DocHS256Kid2 ==
    <<123, 34, 97, 108, 103, 34, 58, 34, 72, 83, 50, 53, 54, 34, 44,
      34, 107, 105, 100, 34, 58, 34, 107, 50, 34, 125>>
DocTruncated == <<123, 34, 97, 108, 103, 34>>

\* The JSON documents of the model and the Header each one unmarshals to:
\* {"alg":"none"}, {"alg":"HS256"}, {"alg":"RS256"}, {"alg":"ES256"},
\* {"alg":"ES512"}, {"alg":"XYZ999"}, {} and {"alg":"HS256","kid":"k2"}.
JsonDocs ==
    { [bytes |-> DocNone,      header |-> [Alg |-> ALG_NONE,  Kid |-> ""]],
      [bytes |-> DocHS256,     header |-> [Alg |-> ALG_HS256, Kid |-> ""]],
      [bytes |-> DocRS256,     header |-> [Alg |-> ALG_RS256, Kid |-> ""]],
      [bytes |-> DocES256,     header |-> [Alg |-> ALG_ES256, Kid |-> ""]],
      [bytes |-> DocES512,     header |-> [Alg |-> ALG_ES512, Kid |-> ""]],
      [bytes |-> DocXYZ999,    header |-> [Alg |-> "XYZ999",  Kid |-> ""]],
      [bytes |-> DocEmpty,     header |-> ZeroHeader],
      [bytes |-> DocHS256Kid2, header |-> [Alg |-> ALG_HS256, Kid |-> "k2"]] }

\* json.Unmarshal(data, &header) on the documents of the model: any other
\* byte sequence (the empty one, a truncated object) is a syntax error.
\* An absent "alg" leaves Alg the empty string.
Unmarshal(bytes) ==
    IF \E d \in JsonDocs : d.bytes = bytes
    THEN [ok |-> TRUE, header |-> (CHOOSE d \in JsonDocs : d.bytes = bytes).header]
    ELSE [ok |-> FALSE, header |-> ZeroHeader]

\* -------------------------------------------------------------- key values

\* A crypto.PublicKey is an interface value: a dynamic type and a value.
KeyOf(type, id, curve, bytes) ==
    [type |-> type, id |-> id, curve |-> curve, bytes |-> bytes]

\* NoneKey = NoneKeyType(0)
NoneKey == KeyOf("NoneKeyType", 0, "", <<>>)
\* another value of the same type, NoneKeyType(1)
NoneKeyOne == KeyOf("NoneKeyType", 1, "", <<>>)
NilKey == KeyOf("nil", 0, "", <<>>)
StringKey == KeyOf("string", 0, "", <<115, 101, 99, 114, 101, 116>>)

\* Shared secrets: "secret", "wrong", then "s" followed by the byte id.
SecretBytes(id) ==
    IF id = 1 THEN <<115, 101, 99, 114, 101, 116>>
    ELSE IF id = 2 THEN <<119, 114, 111, 110, 103>>
    ELSE <<115, id>>
SymmetricKey(id) == KeyOf("[]byte", id, "", SecretBytes(id))

RsaPublic(id)  == KeyOf("*rsa.PublicKey", id, "", <<>>)
RsaPrivate(id) == KeyOf("*rsa.PrivateKey", id, "", <<>>)
EcPublic(curve, id)  == KeyOf("*ecdsa.PublicKey", id, curve, <<>>)
EcPrivate(curve, id) == KeyOf("*ecdsa.PrivateKey", id, curve, <<>>)

Curves == {"P-224", "P-256", "P-521"}
KeyIds == 1..NumKeyIds

\* &privKey.PublicKey
PublicKeyOf(k) ==
    IF k.type = "*rsa.PrivateKey" THEN RsaPublic(k.id)
    ELSE IF k.type = "*ecdsa.PrivateKey" THEN EcPublic(k.curve, k.id)
    ELSE k

Keys ==
    {NoneKey, NoneKeyOne, NilKey, StringKey, RsaPrivate(1), EcPrivate("P-256", 1)}
    \cup {SymmetricKey(i) : i \in KeyIds}
    \cup {RsaPublic(i) : i \in KeyIds}
    \cup {EcPublic(c, i) : c \in Curves, i \in KeyIds}

\* ------------------------------------------------------------ KeyProvider

\* ProviderFromKey(key): singleKey{key: key}
ProviderFromKey(k) == [kind |-> "singleKey", key |-> k]
\* a provider that fails
FailingProvider == [kind |-> "failing", key |-> NilKey]
\* a provider that selects the key from the header and never authorizes "none"
HeaderProvider == [kind |-> "byHeader", key |-> NilKey]

\* kp.GetJWSKey(h): the key and whether an error is returned.
GetJWSKey(p, h) ==
    IF p.kind = "singleKey" THEN [key |-> p.key, err |-> FALSE]
    ELSE IF p.kind = "failing" THEN [key |-> NilKey, err |-> TRUE]
    ELSE IF h.Alg = ALG_HS256
        THEN [key |-> SymmetricKey(IF h.Kid = "k2" THEN 2 ELSE 1), err |-> FALSE]
    ELSE IF h.Alg = ALG_RS256 THEN [key |-> RsaPublic(1), err |-> FALSE]
    ELSE IF h.Alg = ALG_ES256 THEN [key |-> EcPublic("P-256", 1), err |-> FALSE]
    ELSE IF h.Alg = ALG_ES512 THEN [key |-> EcPublic("P-521", 1), err |-> FALSE]
    ELSE [key |-> NilKey, err |-> TRUE]

Providers ==
    {ProviderFromKey(k) : k \in Keys} \cup {FailingProvider, HeaderProvider}

\* ------------------------------------------------------- crypto primitives

\* Hash functions over the signing input, as small checksums.
RECURSIVE Mix(_, _)
Mix(msg, h) ==
    IF Len(msg) = 0 THEN h
    ELSE Mix(Tail(msg), (h * 31 + Head(msg)) % 251)

Sha256(msg) == Mix(msg, 7)
Sha512(msg) == Mix(msg, 113)

\* hmac.New(sha256.New, key) over msg; Sum(nil) is 32 bytes.
HmacSha256(keyBytes, msg) ==
    LET d == Mix(msg, Mix(keyBytes, 19))
    IN  [i \in 1..32 |-> (d + 37 * i) % 256]

\* Mutant of HmacEqual: only the first 16 bytes are compared.
HmacEqual_Prefix(a, b) ==
    /\ Len(a) = Len(b)
    /\ SubSeq(a, 1, 16) = SubSeq(b, 1, 16)

\* hmac.Equal(a, b)
HmacEqual(a, b) == a = b

\* The one PKCS#1 v1.5 signature of digest under key pair id; its length is
\* the size of the modulus (4 bytes in the model).
RsaSignature(id, digest) == <<1 + id, digest, (digest * 7 + id) % 256, 156>>

\* rsa.VerifyPKCS1v15(pub, crypto.SHA256, digest, sig) = nil
VerifyPKCS1v15(pub, digest, sig) == sig = RsaSignature(pub.id, digest)

\* Byte length of a field element of the curve.
FieldLen(curve) ==
    IF curve = "P-224" THEN 28 ELSE IF curve = "P-256" THEN 32 ELSE 66

\* big.Int.SetBytes: the big-endian magnitude, leading zero bytes dropped.
SetBytes(b) ==
    LET nz == {i \in 1..Len(b) : b[i] # 0}
    IN  IF nz = {} THEN <<>> ELSE SubSeq(b, Min(nz), Len(b))

\* The (r, s) pairs that key pair (curve, id) produces for digest, one per
\* nonce; ECDSA signatures are not unique.
EcdsaPair(curve, id, digest, nonce) ==
    [r |-> <<1, (digest + nonce) % 256>> \o Zeros(FieldLen(curve) - 3) \o <<id>>,
     s |-> <<1, (digest * nonce + id) % 256>> \o Zeros(FieldLen(curve) - 3) \o <<16 * nonce + 1>>]

Nonces == {1, 2}

\* ecdsa.Verify(pub, digest, r, s)
EcdsaVerify(pub, digest, r, s) ==
    \E n \in Nonces : EcdsaPair(pub.curve, pub.id, digest, n) = [r |-> r, s |-> s]

\* ----------------------------------------------------- the signing side

Hello == <<104, 101, 108, 108, 111>>

Join3(a, b, c) == a \o <<Dot>> \o b \o <<Dot>> \o c

\* <encoded-header>.<encoded-payload>
SigningInput(seg0, seg1) == seg0 \o <<Dot>> \o seg1

PadLeft(b, n) == Zeros(n - Len(b)) \o b

\* The signature bytes a holder of key k produces for the header's algorithm
\* over the signing input; nothing for "none" and for an unknown algorithm.
SignatureOf(alg, k, nonce, input) ==
    IF alg = ALG_HS256 THEN HmacSha256(k.bytes, input)
    ELSE IF alg = ALG_RS256 THEN RsaSignature(k.id, Sha256(input))
    ELSE IF alg \in {ALG_ES256, ALG_ES512} THEN
        LET size == IF alg = ALG_ES256 THEN ES256Size ELSE ES512Size
            dig  == IF alg = ALG_ES256 THEN Sha256(input) ELSE Sha512(input)
            p    == EcdsaPair(k.curve, k.id, dig, nonce)
        IN  PadLeft(p.r, size) \o PadLeft(p.s, size)
    ELSE <<>>

\* sign(header, payload, key): the compact serialization
\* base64url(header) "." base64url(payload) "." base64url(signature).
Sign(doc, payload, k, nonce) ==
    LET seg0 == Encode(doc)
        seg1 == Encode(payload)
        alg  == Unmarshal(doc).header.Alg
    IN  Join3(seg0, seg1, Encode(SignatureOf(alg, k, nonce, SigningInput(seg0, seg1))))

\* The keys that can sign under an algorithm. An EC key of any curve can be
\* used to produce a signature under an ES header.
SignersOf(alg) ==
    IF alg = ALG_HS256 THEN {SymmetricKey(i) : i \in KeyIds}
    ELSE IF alg = ALG_RS256 THEN {RsaPrivate(i) : i \in KeyIds}
    ELSE IF alg \in {ALG_ES256, ALG_ES512}
        THEN {EcPrivate(c, i) : c \in Curves, i \in {1}}
    ELSE {NoneKey}

\* The curve an ES algorithm implies.
CurveOf(alg) == IF alg = ALG_ES256 THEN "P-256" ELSE "P-521"

\* A key of exactly the shape the algorithm requires.
ValidKeyFor(alg, k) ==
    \/ alg = ALG_HS256 /\ k.type = "[]byte"
    \/ alg = ALG_RS256 /\ k.type \in {"*rsa.PublicKey", "*rsa.PrivateKey"}
    \/ /\ alg \in {ALG_ES256, ALG_ES512}
       /\ k.type \in {"*ecdsa.PublicKey", "*ecdsa.PrivateKey"}
       /\ k.curve = CurveOf(alg)

\* ---------------------------------------------------------------- inputs

\* How an input was produced: signed by a key holder ("signed"), a signed or
\* unsigned token with one bit of its signature segment flipped ("flipped"),
\* or put together from arbitrary segments ("raw"). base is the input before
\* the flip.
Origin(kind, base, doc, payload, signer, nonce) ==
    [kind |-> kind, base |-> base, doc |-> doc, payload |-> payload,
     signer |-> signer, nonce |-> nonce]

SigningDocs == {DocNone, DocHS256, DocHS256Kid2, DocRS256, DocES256, DocES512}
Payloads == {Hello, <<>>}

SignerKeys == UNION {SignersOf(Unmarshal(d).header.Alg) : d \in SigningDocs}

SignedInputs ==
    { [jws |-> Sign(d, p, k, n), origin |-> Origin("signed", Sign(d, p, k, n), d, p, k, n)] :
        <<d, p, k, n>> \in
            { q \in SigningDocs \X Payloads \X SignerKeys \X Nonces :
                /\ q[3] \in SignersOf(Unmarshal(q[1]).header.Alg)
                /\ q[4] = 1 \/ q[3].type = "*ecdsa.PrivateKey" } }

\* An unsigned token that carries a non-empty third segment.
NoneWithSignature ==
    LET j == Join3(Encode(DocNone), Encode(Hello), Encode(<<1, 2, 110>>))
    IN  [jws |-> j, origin |-> Origin("signed", j, DocNone, Hello, NoneKey, 1)]

\* Positions of the signature segment of a three-segment input at which a bit
\* is flipped: its first and its last MaxFlipPos characters.
FlipPositions(str) ==
    LET ps    == Split(str)
        start == Len(ps[1]) + Len(ps[2]) + 2
        n     == Len(ps[3])
    IN  {start + i : i \in {j \in 1..n : j <= MaxFlipPos \/ j > n - MaxFlipPos}}

FlipBases ==
    {sc \in SignedInputs : sc.origin.payload = Hello /\ sc.origin.nonce = 1
                           /\ sc.origin.doc # DocHS256Kid2}
    \cup {NoneWithSignature}

FlippedInputs ==
    UNION { { [jws |-> FlipAt(sc.jws, pos, bit),
               origin |-> [sc.origin EXCEPT !.kind = "flipped"]] :
                <<pos, bit>> \in FlipPositions(sc.jws) \X (0..7) } : sc \in FlipBases }

HeaderSegments ==
    {Encode(d.bytes) : d \in JsonDocs}
    \cup {Encode(DocTruncated), <<>>, <<64>>, Encode(DocNone) \o <<EqPad>>}
PayloadSegments ==
    {Encode(Hello), <<>>, <<33>>, Encode(Hello) \o <<EqPad>>}
SignatureSegments ==
    {<<>>, <<42>>, Encode(<<1, 2, 3>>), Encode(Zeros(2 * ES256Size)),
     Encode(Zeros(2 * ES512Size)), Encode(Zeros(ES256Size))}

RawOrigin(j) == Origin("raw", j, <<>>, <<>>, NilKey, 1)

RawInputs ==
    { [jws |-> Join3(h, p, g), origin |-> RawOrigin(Join3(h, p, g))] :
        <<h, p, g>> \in HeaderSegments \X PayloadSegments \X SignatureSegments }

\* n segments joined by ".", the first ones those of a valid unsigned token.
RECURSIVE Segments(_)
Segments(n) ==
    IF n = 1 THEN Encode(DocNone)
    ELSE Segments(n - 1) \o <<Dot>> \o (IF n = 3 THEN <<>> ELSE Encode(Hello))

CountInputs ==
    { [jws |-> Segments(n), origin |-> RawOrigin(Segments(n))] : n \in 1..MaxParts }
    \cup { [jws |-> <<>>, origin |-> RawOrigin(<<>>)] }

\* The providers an input is verified with: every provider for the signed,
\* the raw and the short or long inputs; for a flipped input the providers
\* that return the signer's verification key, the header's key or NoneKey.
ProvidersFor(sc) ==
    IF sc.origin.kind = "flipped"
    THEN {ProviderFromKey(PublicKeyOf(sc.origin.signer)), ProviderFromKey(NoneKey),
          HeaderProvider}
    ELSE Providers

Inputs == SignedInputs \cup {NoneWithSignature} \cup FlippedInputs
          \cup RawInputs \cup CountInputs

\* ------------------------------------------------------------------ state

VARIABLES
    jws,         \* the input string of the call
    kp,          \* the KeyProvider of the call
    origin,      \* how the caller produced jws
    pc,          \* the position of VerifyAndDecode
    parts,       \* strings.Split(jws, ".")
    data,        \* the decoded header segment
    header,      \* the unmarshalled Header
    key,         \* the key the provider returned
    signature,   \* the decoded signature segment
    r, s,        \* the big.Int halves of an ECDSA signature
    events,      \* the calls made so far, in order
    retPayload,  \* the returned []byte
    retNil,      \* whether the returned []byte is nil
    retErr,      \* the returned error's message, "" for a nil error
    retErrArg    \* the value the error message names

vars == <<jws, kp, origin, pc, parts, data, header, key, signature, r, s,
          events, retPayload, retNil, retErr, retErrArg>>

locals == <<parts, data, header, key, signature, r, s>>
rets == <<retPayload, retNil, retErr, retErrArg>>
call == <<jws, kp, origin>>

Init ==
    /\ \E sc \in Inputs : \E p \in ProvidersFor(sc) :
          /\ jws = sc.jws
          /\ origin = sc.origin
          /\ kp = p
    /\ pc = "split"
    /\ parts = <<>>
    /\ data = <<>>
    /\ header = ZeroHeader
    /\ key = NilKey
    /\ signature = <<>>
    /\ r = <<>>
    /\ s = <<>>
    /\ events = <<>>
    /\ retPayload = <<>>
    /\ retNil = TRUE
    /\ retErr = ""
    /\ retErrArg = ""

\* return payload, nil
ReturnPayload(payload) ==
    /\ pc' = "done"
    /\ retPayload' = payload
    /\ retNil' = FALSE
    /\ retErr' = ""
    /\ retErrArg' = ""

\* return nil, errors.New(msg) / fmt.Errorf(msg, arg)
ReturnError(msg, arg) ==
    /\ pc' = "done"
    /\ retPayload' = <<>>
    /\ retNil' = TRUE
    /\ retErr' = msg
    /\ retErrArg' = arg

Goto(label) == pc' = label /\ UNCHANGED rets

Did(e) == events' = Append(events, e)

\* -------------------------------------------------------- VerifyAndDecode

\* Mutant of SplitInput: len(parts) < 3 instead of len(parts) != 3.
SplitInput_AtLeastThree ==
    /\ pc = "split"
    /\ parts' = Split(jws)
    /\ Did("Split")
    /\ IF Len(Split(jws)) < 3
       THEN ReturnError("Malformed JWS", "")
       ELSE Goto("decodeHeader")
    /\ UNCHANGED <<call, data, header, key, signature, r, s>>

\* parts := strings.Split(jws, "."); if len(parts) != 3 { Malformed JWS }
SplitInput ==
    /\ pc = "split"
    /\ parts' = Split(jws)
    /\ Did("Split")
    /\ IF Len(Split(jws)) # 3
       THEN ReturnError("Malformed JWS", "")
       ELSE Goto("decodeHeader")
    /\ UNCHANGED <<call, data, header, key, signature, r, s>>

\* data, err := safeDecode(parts[0])
DecodeHeader ==
    /\ pc = "decodeHeader"
    /\ LET d == safeDecode(parts[1])
       IN  /\ data' = d.bytes
           /\ IF ~d.ok
              THEN ReturnError("Malformed JWS header", "")
              ELSE Goto("unmarshal")
    /\ Did("safeDecode(header)")
    /\ UNCHANGED <<call, parts, header, key, signature, r, s>>

\* Mutant of UnmarshalHeader: the error of json.Unmarshal is not checked.
UnmarshalHeader_IgnoreError ==
    /\ pc = "unmarshal"
    /\ header' = Unmarshal(data).header
    /\ Goto("getKey")
    /\ Did("Unmarshal")
    /\ UNCHANGED <<call, parts, data, key, signature, r, s>>

\* err = json.Unmarshal(data, &header)
UnmarshalHeader ==
    /\ pc = "unmarshal"
    /\ LET u == Unmarshal(data)
       IN  /\ header' = u.header
           /\ IF ~u.ok
              THEN ReturnError("Failed to decode header", "")
              ELSE Goto("getKey")
    /\ Did("Unmarshal")
    /\ UNCHANGED <<call, parts, data, key, signature, r, s>>

\* key, err := kp.GetJWSKey(header)
AcquireKey ==
    /\ pc = "getKey"
    /\ LET g == GetJWSKey(kp, header)
       IN  /\ key' = g.key
           /\ IF g.err
              THEN ReturnError("Failed to acquire public key", "")
              ELSE Goto("decodeSignature")
    /\ Did("GetJWSKey")
    /\ UNCHANGED <<call, parts, data, header, signature, r, s>>

\* signature, err := safeDecode(parts[2])
DecodeSignature ==
    /\ pc = "decodeSignature"
    /\ LET d == safeDecode(parts[3])
       IN  /\ signature' = d.bytes
           /\ IF ~d.ok
              THEN ReturnError("Malformed JWS signature", "")
              ELSE Goto("verify")
    /\ Did("safeDecode(signature)")
    /\ UNCHANGED <<call, parts, data, header, key, r, s>>

\* Mutant of PlaintextAllowed: only the dynamic type of the key is compared.
PlaintextAllowed_TypeOnly(k) == k.type = "NoneKeyType"

\* key != NoneKey is false: the interface value holds NoneKeyType(0).
PlaintextAllowed(k) == k = NoneKey

\* Mutant of VerifyNone: an unsigned token must carry an empty signature.
VerifyNone_EmptySignatureOnly ==
    /\ pc = "verify"
    /\ header.Alg = ALG_NONE
    /\ IF key # NoneKey \/ signature # <<>>
       THEN ReturnError("Refusing to validate plaintext JWS", "")
       ELSE Goto("decodePayload")
    /\ Did("none")
    /\ UNCHANGED <<call, locals>>

\* case ALG_NONE
VerifyNone ==
    /\ pc = "verify"
    /\ header.Alg = ALG_NONE
    /\ IF ~PlaintextAllowed(key)
       THEN ReturnError("Refusing to validate plaintext JWS", "")
       ELSE Goto("decodePayload")
    /\ Did("none")
    /\ UNCHANGED <<call, locals>>

\* symmetricKey, ok := key.([]byte)
IsSymmetricKey(k) == k.type = "[]byte"

\* Mutant of HmacMatches: an empty signature is accepted without comparison.
HmacMatches_AcceptEmpty(k, seg0, seg1, sig) ==
    \/ sig = <<>>
    \/ HmacEqual(HmacSha256(k.bytes, SigningInput(seg0, seg1)), sig)

\* hmac.Equal(expectedSignature, signature), the expected signature being the
\* HMAC-SHA256 of parts[0] "." parts[1] under the key.
HmacMatches(k, seg0, seg1, sig) ==
    HmacEqual(HmacSha256(k.bytes, SigningInput(seg0, seg1)), sig)

\* case ALG_HS256
VerifyHS256 ==
    /\ pc = "verify"
    /\ header.Alg = ALG_HS256
    /\ IF ~IsSymmetricKey(key)
       THEN /\ ReturnError("Expected symmetric ([]byte) key", key.type)
            /\ Did("HS256")
       ELSE /\ IF ~HmacMatches(key, parts[1], parts[2], signature)
               THEN ReturnError("Signature verification failed", "")
               ELSE Goto("decodePayload")
            /\ Did("hmac.Equal")
    /\ UNCHANGED <<call, locals>>

\* pubKey, ok := key.(*rsa.PublicKey), else the public part of a
\* *rsa.PrivateKey.
RsaKeyOf(k) ==
    IF k.type = "*rsa.PublicKey" THEN [ok |-> TRUE, pub |-> k]
    ELSE IF k.type = "*rsa.PrivateKey" THEN [ok |-> TRUE, pub |-> PublicKeyOf(k)]
    ELSE [ok |-> FALSE, pub |-> k]

\* rsa.VerifyPKCS1v15 of the signature against the SHA-256 digest of
\* parts[0] "." parts[1].
RsaMatches(pub, seg0, seg1, sig) ==
    VerifyPKCS1v15(pub, Sha256(SigningInput(seg0, seg1)), sig)

\* case ALG_RS256
VerifyRS256 ==
    /\ pc = "verify"
    /\ header.Alg = ALG_RS256
    /\ IF ~RsaKeyOf(key).ok
       THEN /\ ReturnError("Expected RSA key", key.type)
            /\ Did("RS256")
       ELSE /\ IF ~RsaMatches(RsaKeyOf(key).pub, parts[1], parts[2], signature)
               THEN ReturnError("Signature verification failed", "")
               ELSE Goto("decodePayload")
            /\ Did("rsa.VerifyPKCS1v15")
    /\ UNCHANGED <<call, locals>>

\* pubKey, ok := key.(*ecdsa.PublicKey), else the public part of a
\* *ecdsa.PrivateKey. The curve of the key is not looked at.
EcdsaKeyOf(k) ==
    IF k.type = "*ecdsa.PublicKey" THEN [ok |-> TRUE, pub |-> k]
    ELSE IF k.type = "*ecdsa.PrivateKey" THEN [ok |-> TRUE, pub |-> PublicKeyOf(k)]
    ELSE [ok |-> FALSE, pub |-> k]

\* rSize (= sSize) of the algorithm.
RSize(alg) == IF alg = ALG_ES256 THEN ES256Size ELSE ES512Size

\* Mutant of SignatureLenOk: len(signature) < rSize+sSize is the rejection.
SignatureLenOk_AtLeast(alg, sig) == Len(sig) >= RSize(alg) + RSize(alg)

\* len(signature) != rSize+sSize is false
SignatureLenOk(alg, sig) == Len(sig) = RSize(alg) + RSize(alg)

\* r.SetBytes(signature[:rSize])
RPart(alg, sig) == SetBytes(SubSeq(sig, 1, RSize(alg)))
\* s.SetBytes(signature[rSize:])
SPart(alg, sig) == SetBytes(SubSeq(sig, RSize(alg) + 1, Len(sig)))

\* Mutant of EsDigest: SHA-256 for both algorithms.
EsDigest_AlwaysSha256(alg, seg0, seg1) == Sha256(SigningInput(seg0, seg1))

\* hs.Sum(nil) after writing parts[0] "." parts[1]: SHA-256 for ES256,
\* SHA-512 for ES512.
EsDigest(alg, seg0, seg1) ==
    IF alg = ALG_ES256 THEN Sha256(SigningInput(seg0, seg1))
    ELSE Sha512(SigningInput(seg0, seg1))

\* case ALG_ES256, ALG_ES512
VerifyECDSA ==
    /\ pc = "verify"
    /\ header.Alg \in {ALG_ES256, ALG_ES512}
    /\ IF ~EcdsaKeyOf(key).ok
       THEN /\ ReturnError("Expected ECDSA key", key.type)
            /\ Did("ES")
            /\ UNCHANGED <<r, s>>
       ELSE IF ~SignatureLenOk(header.Alg, signature)
       THEN /\ ReturnError("Signature verification failed", "")
            /\ Did("len(signature)")
            /\ UNCHANGED <<r, s>>
       ELSE /\ r' = RPart(header.Alg, signature)
            /\ s' = SPart(header.Alg, signature)
            /\ events' = events \o <<"len(signature)", "SetBytes", "ecdsa.Verify">>
            /\ IF ~EcdsaVerify(EcdsaKeyOf(key).pub,
                               EsDigest(header.Alg, parts[1], parts[2]),
                               RPart(header.Alg, signature),
                               SPart(header.Alg, signature))
               THEN ReturnError("Signature verification failed", "")
               ELSE Goto("decodePayload")
    /\ UNCHANGED <<call, parts, data, header, key, signature>>

KnownAlgorithms == {ALG_NONE, ALG_HS256, ALG_RS256, ALG_ES256, ALG_ES512}

\* Mutant of UnknownAlgorithm: the switch has no default case.
UnknownAlgorithm_Skip ==
    /\ pc = "verify"
    /\ header.Alg \notin KnownAlgorithms
    /\ Goto("decodePayload")
    /\ Did("default")
    /\ UNCHANGED <<call, locals>>

\* default: Unknown signature algorithm: <header.Alg>
UnknownAlgorithm ==
    /\ pc = "verify"
    /\ header.Alg \notin KnownAlgorithms
    /\ ReturnError("Unknown signature algorithm", header.Alg)
    /\ Did("default")
    /\ UNCHANGED <<call, locals>>

\* payload, err := safeDecode(parts[1]); return payload, nil
DecodePayload ==
    /\ pc = "decodePayload"
    /\ LET d == safeDecode(parts[2])
       IN  IF ~d.ok
           THEN ReturnError("Malformed JWS payload", "")
           ELSE ReturnPayload(d.bytes)
    /\ Did("safeDecode(payload)")
    /\ UNCHANGED <<call, locals>>

Next ==
    \/ SplitInput
    \/ DecodeHeader
    \/ UnmarshalHeader
    \/ AcquireKey
    \/ DecodeSignature
    \/ VerifyNone
    \/ VerifyHS256
    \/ VerifyRS256
    \/ VerifyECDSA
    \/ UnknownAlgorithm
    \/ DecodePayload

Spec == Init /\ [][Next]_vars

Done == pc = "done"
Succeeded == pc = "done" /\ retErr = ""

\* ------------------------------------------------------------- properties

Happened(e) == \E i \in DOMAIN events : events[i] = e

\* Number of "." characters of the input.
DotCount == Cardinality({i \in DOMAIN jws : jws[i] = Dot})

\* The header the input's first segment decodes to, when it does.
InputHeaderOk ==
    /\ DotCount = 2
    /\ safeDecode(Split(jws)[1]).ok
    /\ Unmarshal(safeDecode(Split(jws)[1]).bytes).ok
InputHeader == Unmarshal(safeDecode(Split(jws)[1]).bytes).header

\* The provider returned a key, without error, for the parsed header.
KeyReturned == Happened("GetJWSKey") /\ ~GetJWSKey(kp, header).err

\* The check of the branch that alg selects, stated on the decoded signature
\* and the two encoded segments.
BranchPassed(alg, k, seg0, seg1, sig) ==
    \/ alg = "none" /\ k = NoneKey
    \/ /\ alg = "HS256"
       /\ k.type = "[]byte"
       /\ sig = HmacSha256(k.bytes, seg0 \o <<46>> \o seg1)
    \/ /\ alg = "RS256"
       /\ k.type \in {"*rsa.PublicKey", "*rsa.PrivateKey"}
       /\ sig = RsaSignature(k.id, Sha256(seg0 \o <<46>> \o seg1))
    \/ /\ alg = "ES256"
       /\ k.type \in {"*ecdsa.PublicKey", "*ecdsa.PrivateKey"}
       /\ Len(sig) = 64
       /\ EcdsaVerify(PublicKeyOf(k), Sha256(seg0 \o <<46>> \o seg1),
                      SetBytes(SubSeq(sig, 1, 32)), SetBytes(SubSeq(sig, 33, 64)))
    \/ /\ alg = "ES512"
       /\ k.type \in {"*ecdsa.PublicKey", "*ecdsa.PrivateKey"}
       /\ Len(sig) = 132
       /\ EcdsaVerify(PublicKeyOf(k), Sha512(seg0 \o <<46>> \o seg1),
                      SetBytes(SubSeq(sig, 1, 66)), SetBytes(SubSeq(sig, 67, 132)))

\* C1: a payload is returned only when, in this call, the input split into
\* three segments, the header segment decoded and parsed, the provider
\* returned a key without error, the signature segment decoded, the check of
\* the branch selected by header.alg passed for that key and the payload
\* segment decoded; every other finished call returns an error and a nil
\* payload, and no call returns both a payload and an error.
Thm_C1 ==
    /\ Done => (retNil <=> retErr # "")
    /\ ~Done => retNil /\ retErr = ""
    /\ Succeeded =>
        /\ InputHeaderOk
        /\ ~GetJWSKey(kp, InputHeader).err
        /\ safeDecode(Split(jws)[3]).ok
        /\ BranchPassed(InputHeader.Alg, GetJWSKey(kp, InputHeader).key,
                        Split(jws)[1], Split(jws)[2],
                        safeDecode(Split(jws)[3]).bytes)
        /\ safeDecode(Split(jws)[2]).ok
        /\ retPayload = safeDecode(Split(jws)[2]).bytes
        /\ SubSeq(events, 1, 5) = <<"Split", "safeDecode(header)", "Unmarshal",
                                    "GetJWSKey", "safeDecode(signature)">>
        /\ Tail2(events, 5) \in
              { <<"none", "safeDecode(payload)">>,
                <<"hmac.Equal", "safeDecode(payload)">>,
                <<"rsa.VerifyPKCS1v15", "safeDecode(payload)">>,
                <<"len(signature)", "SetBytes", "ecdsa.Verify", "safeDecode(payload)">> }

\* A call that returned the payload of an HS256 token.
Wit_C1 ==
    /\ Succeeded
    /\ header.Alg = ALG_HS256
    /\ retPayload = Hello

\* C2: with alg "none" and a provider that returns any key other than the
\* NoneKey sentinel, the call fails and returns no payload.
Thm_C2 ==
    (KeyReturned /\ header.Alg = ALG_NONE /\ key # NoneKey)
        => /\ pc # "decodePayload"
           /\ ~Succeeded
           /\ Done => /\ retNil
                      /\ retErr \in {"Refusing to validate plaintext JWS",
                                     "Malformed JWS signature"}

\* alg "none" refused for a key of the sentinel's type that is not the sentinel.
Wit_C2 ==
    /\ Done
    /\ header.Alg = ALG_NONE
    /\ key = NoneKeyOne
    /\ retErr = "Refusing to validate plaintext JWS"

\* C3 as stated: with alg "none" and the NoneKey sentinel every call succeeds,
\* whatever the signature segment contains.
Orig_C3 ==
    (Done /\ KeyReturned /\ header.Alg = ALG_NONE /\ key = NoneKey
          /\ safeDecode(parts[2]).ok)
        => Succeeded

\* C3: with alg "none" and the NoneKey sentinel the call succeeds and returns
\* the decoded payload segment whenever the signature segment and the payload
\* segment are valid encoding; the decoded signature bytes are not examined.
Thm_C3 ==
    (Done /\ KeyReturned /\ header.Alg = ALG_NONE /\ key = NoneKey
          /\ safeDecode(parts[3]).ok /\ safeDecode(parts[2]).ok)
        => /\ Succeeded
           /\ retPayload = safeDecode(parts[2]).bytes

\* An unsigned token with a non-empty signature segment was accepted.
Wit_C3 ==
    /\ Succeeded
    /\ header.Alg = ALG_NONE
    /\ key = NoneKey
    /\ signature # <<>>
    /\ retPayload = Hello

\* The algorithm of the header the input was signed under.
SignedAlg == Unmarshal(origin.doc).header.Alg

\* The provider returns the verification key of the input's signer.
MatchingProvider ==
    LET g == GetJWSKey(kp, Unmarshal(origin.doc).header)
    IN  ~g.err /\ PublicKeyOf(g.key) = PublicKeyOf(origin.signer)

\* C4: round trip. An input signed under HS256, RS256, ES256 or ES512 with a
\* key valid for the algorithm, verified with a provider returning the
\* matching verification key, yields the original payload and no error.
Thm_C4 ==
    (Done /\ origin.kind = "signed"
          /\ SignedAlg \in {ALG_HS256, ALG_RS256, ALG_ES256, ALG_ES512}
          /\ ValidKeyFor(SignedAlg, origin.signer)
          /\ MatchingProvider)
        => /\ retErr = ""
           /\ ~retNil
           /\ retPayload = origin.payload

\* An ES512 token verified and its payload returned.
Wit_C4 ==
    /\ Succeeded
    /\ origin.kind = "signed"
    /\ SignedAlg = ALG_ES512
    /\ MatchingProvider
    /\ retPayload = Hello

\* The decoded signature of the input before the flip.
BaseSignature == safeDecode(Split(origin.base)[3]).bytes

EmptySegment == \E i \in DOMAIN Split(jws) : Split(jws)[i] = <<>>

\* C6 as stated: an input that does not consist of exactly three non-empty
\* segments fails with "Malformed JWS" before the header is decoded.
Orig_C6 ==
    (Done /\ (DotCount # 2 \/ EmptySegment))
        => retErr = "Malformed JWS" /\ events = <<"Split">>

\* C6: an input whose segment count is not 3 fails with "Malformed JWS"
\* before the header is decoded or the provider is called; an input of three
\* segments, empty ones included, passes on to the later steps.
Thm_C6 ==
    /\ (Done /\ DotCount # 2)
          => retErr = "Malformed JWS" /\ retNil /\ events = <<"Split">>
    /\ (Done /\ DotCount = 2)
          => retErr # "Malformed JWS" /\ Happened("safeDecode(header)")

\* A four-segment input was rejected as malformed.
Wit_C6 ==
    /\ Done
    /\ DotCount = 3
    /\ retErr = "Malformed JWS"

\* The header was decoded and parsed, and its alg is not a known one.
UnknownAlgParsed ==
    /\ Happened("Unmarshal")
    /\ Unmarshal(data).ok
    /\ header.Alg \notin {"none", "HS256", "RS256", "ES256", "ES512"}

\* C7 as stated: an alg outside the enumeration fails with the
\* unknown-algorithm error whatever the provider and the signature segment.
Orig_C7 ==
    (Done /\ UnknownAlgParsed)
        => retErr = "Unknown signature algorithm" /\ retErrArg = header.Alg

\* C7: when the provider returns a key without error and the signature
\* segment is valid encoding, an alg outside the enumeration (an absent one
\* included) fails with the unknown-algorithm error naming the value,
\* whichever key was returned and whatever the decoded signature.
Thm_C7 ==
    (Done /\ UnknownAlgParsed /\ KeyReturned /\ safeDecode(parts[3]).ok)
        => /\ retErr = "Unknown signature algorithm"
           /\ retErrArg = header.Alg
           /\ retNil

\* alg "XYZ999" was reported, with an RSA key and a non-empty signature.
Wit_C7 ==
    /\ Done
    /\ retErr = "Unknown signature algorithm"
    /\ retErrArg = "XYZ999"
    /\ key.type = "*rsa.PublicKey"
    /\ signature # <<>>

\* C8: a key that has not exactly the shape the declared algorithm requires
\* (for ES256 and ES512: an EC key on the curve the algorithm implies) is
\* never used to return a payload.
Orig_C8 ==
    (Done /\ KeyReturned
          /\ header.Alg \in {ALG_HS256, ALG_RS256, ALG_ES256, ALG_ES512}
          /\ ~ValidKeyFor(header.Alg, key))
        => retErr # "" /\ retNil

\* The header segment of a three-segment input is not valid encoding or not
\* valid JSON.
BadHeader ==
    /\ DotCount = 2
    /\ \/ ~safeDecode(Split(jws)[1]).ok
       \/ ~Unmarshal(safeDecode(Split(jws)[1]).bytes).ok

\* C9: GetJWSKey is called at most once, as the fourth step, after the header
\* segment was decoded and parsed successfully; a bad header ends the call
\* without key lookup, signature decoding or signature check; the signature
\* segment is decoded only after the lookup, and a failed lookup ends the call.
Thm_C9 ==
    /\ Cardinality({i \in DOMAIN events : events[i] = "GetJWSKey"}) <= 1
    /\ \A i \in DOMAIN events :
          events[i] = "GetJWSKey"
              => /\ SubSeq(events, 1, i) = <<"Split", "safeDecode(header)",
                                             "Unmarshal", "GetJWSKey">>
                 /\ InputHeaderOk
    /\ \A i \in DOMAIN events :
          events[i] = "safeDecode(signature)"
              => /\ i = 5
                 /\ events[4] = "GetJWSKey"
                 /\ ~GetJWSKey(kp, header).err
    /\ BadHeader =>
          /\ \A i \in DOMAIN events :
                events[i] \in {"Split", "safeDecode(header)", "Unmarshal"}
          /\ Done => retErr \in {"Malformed JWS header", "Failed to decode header"}
          /\ key = NilKey /\ signature = <<>>
    /\ (Happened("GetJWSKey") /\ GetJWSKey(kp, header).err)
          => /\ Done
             /\ retErr = "Failed to acquire public key"
             /\ Len(events) = 4

\* A header that decodes but does not parse ended the call after three steps.
Wit_C9 ==
    /\ Done
    /\ retErr = "Failed to decode header"
    /\ events = <<"Split", "safeDecode(header)", "Unmarshal">>
    /\ kp = ProviderFromKey(NoneKey)

\* An ES algorithm met an EC key and a decoded signature.
EsDispatched ==
    /\ Done
    /\ Happened("safeDecode(signature)")
    /\ safeDecode(parts[3]).ok
    /\ header.Alg \in {ALG_ES256, ALG_ES512}
    /\ key.type \in {"*ecdsa.PublicKey", "*ecdsa.PrivateKey"}

\* C10: for ES256 (field size 32) and ES512 (field size 66) with an EC key, a
\* decoded signature whose length is not twice the field size is rejected
\* with "Signature verification failed" before R and S are parsed and before
\* ECDSA verification; one of that length is split into R, its first field
\* size bytes, and S, the remaining ones.
Thm_C10 ==
    EsDispatched =>
        LET fieldSize == IF header.Alg = "ES256" THEN 32 ELSE 66
        IN  IF Len(signature) # 2 * fieldSize
            THEN /\ retErr = "Signature verification failed"
                 /\ retNil
                 /\ events[Len(events)] = "len(signature)"
                 /\ ~Happened("SetBytes")
                 /\ ~Happened("ecdsa.Verify")
                 /\ r = <<>> /\ s = <<>>
            ELSE /\ r = SetBytes(SubSeq(signature, 1, fieldSize))
                 /\ s = SetBytes(SubSeq(signature, fieldSize + 1, 2 * fieldSize))
                 /\ SubSeq(events, 6, 8) = <<"len(signature)", "SetBytes", "ecdsa.Verify">>

\* A 32-byte signature under ES256 was rejected for its length.
Wit_C10 ==
    /\ EsDispatched
    /\ header.Alg = ALG_ES256
    /\ Len(signature) = 32
    /\ retErr = "Signature verification failed"
    /\ ~Happened("ecdsa.Verify")
====
